---------------------------- MODULE Spec2Model ----------------------------
(***************************************************************************)
(* "Open File Path in Default Terminal": the command handler of the VS     *)
(* Code extension, in its two deployed variants.                           *)
(*                                                                         *)
(*   cascade  (src/unnamed/part_000): openSystemTerminal tries the         *)
(*            platform's terminal emulators one after the other through    *)
(*            spawnPromise and falls back to the integrated terminal.      *)
(*   minimal  (src/extension.js): openAlacrittyTmux spawns alacritty only. *)
(*                                                                         *)
(* One action of the model is one task of the JavaScript event loop, run   *)
(* to completion together with the promise continuations (microtasks) it   *)
(* triggers: the command invocation, the delivery of a child's 'error'     *)
(* event, the expiry of a 200 ms timer.  The timers of one activation      *)
(* expire in the order they were armed; timers of different activations    *)
(* and error events are delivered in any order.                            *)
(*                                                                         *)
(* A JavaScript string is a sequence of tokens (TLA+ strings); a path is   *)
(* the token sequence "/", "home", "/", "me", ...; a template literal is   *)
(* the concatenation of its pieces.                                        *)
(***************************************************************************)
EXTENDS Naturals, Sequences, FiniteSets

VARIABLES
    variant,    \* which extension.js is deployed: "cascade" or "minimal"
    plt,        \* what os.platform() returns in this process
    inv,        \* the command handler's activations, in invocation order
    att,        \* per activation: its launch attempts (one per spawn call), in order
    msgs,       \* per activation: its vscode.window.show*Message calls, in order
    terms,      \* per activation: its vscode.window.createTerminal calls, in order
    unhandled,  \* uncaught exceptions and unhandled promise rejections
    given,      \* per activation: whether it was given a resource or an active editor
    logger,     \* the logging module's `let logger`: 0 (undefined) or the instance
    created,    \* how many times winston.createLogger has run
    logFile,    \* the lines written to ~/cli-runner.log, in order
    returned    \* what each createLogger call returned, in call order

logVars == <<logger, created, logFile, returned>>

vars == <<variant, plt, inv, att, msgs, terms, unhandled, given, logVars>>

-----------------------------------------------------------------------------
(* Bounds of the model.                                                    *)

\* Command invocations per run of the extension host.
MaxInvocations == 2

\* createLogger calls per process.
MaxLoggerCalls == 3

\* Lines written to the log file per process.
MaxLogLines == 4

-----------------------------------------------------------------------------
(* Inputs.                                                                 *)

\* `undefined` for a Uri (no resource given, no active editor).
Undefined == <<>>

\* fsPath of the files the command is invoked on.
Files ==
    { <<"/", "home", "/", "me", "/", "projects", "/", "foo", "/", "src", "/", "index.js">>,
      <<"/", "home", "/", "me", "/", "projects", "/", "foo", "/", "src", "/", "util.js">> }

\* Values of os.platform(); freebsd and aix stand for the ones the code does not know.
Platforms == {"darwin", "win32", "linux", "freebsd", "aix"}

Variants == {"cascade", "minimal"}

\* What the operating system does with one spawn call: spawn() throws
\* synchronously, the child emits 'error' at some time, or it never does.
SpawnBehaviours == {"throw", "error", "ok"}

-----------------------------------------------------------------------------
(* Strings and paths.                                                      *)

Max(S) == CHOOSE x \in S : \A y \in S : y <= x

LastSlash(p) ==
    LET S == {j \in 1..Len(p) : p[j] = "/"} IN IF S = {} THEN 0 ELSE Max(S)

\* path.dirname on a normalised path.
dirname(p) ==
    LET l == LastSlash(p) IN
    IF l = 0 THEN <<".">>
    ELSE IF l = 1 THEN <<"/">>
    ELSE SubSeq(p, 1, l - 1)

\* s occurs in t as a contiguous run of tokens.
Contains(t, s) ==
    \E j \in 0..(Len(t) - Len(s)) : SubSeq(t, j + 1, j + Len(s)) = s

Str(s) == <<s>>

-----------------------------------------------------------------------------
(* Candidate tables: <<command, argument vector>>.                         *)

Cand(cmd, args) == [cmd |-> cmd, args |-> args]

darwinTerminal(targetDir) == Cand("open", <<Str("-a"), Str("Terminal"), targetDir>>)

darwinITerm(targetDir) == Cand("open", <<Str("-a"), Str("iTerm"), targetDir>>)

win32Wt(targetDir) == Cand("wt", <<Str("-d"), targetDir>>)

win32Cmd(targetDir) ==
    Cand("cmd", <<Str("/c"), Str("start"), Str("cmd.exe"), Str("/K"),
                  <<"cd /d \"">> \o targetDir \o <<"\"">> >>)

\* linuxCandidates whose xfce4-terminal entry names the flag but not the directory.
linuxCandidatesNoDir(targetDir) ==
    << Cand("gnome-terminal",
            <<Str("--"), Str("bash"), Str("-lc"),
              <<"cd \"">> \o targetDir \o <<"\"; exec bash">> >>),
       Cand("konsole", <<Str("--workdir"), targetDir>>),
       Cand("xfce4-terminal", <<Str("--working-directory")>>),
       Cand("x-terminal-emulator",
            <<Str("-e"), <<"bash -c 'cd \"">> \o targetDir \o <<"\"; exec bash'">> >>),
       Cand("xterm",
            <<Str("-e"), <<"bash -lc 'cd \"">> \o targetDir \o <<"\"; exec bash'">> >>) >>

\* linuxCandidates with konsole probed before gnome-terminal.
linuxCandidatesSwapped(targetDir) ==
    << Cand("konsole", <<Str("--workdir"), targetDir>>),
       Cand("gnome-terminal",
            <<Str("--"), Str("bash"), Str("-lc"),
              <<"cd \"">> \o targetDir \o <<"\"; exec bash">> >>),
       Cand("xfce4-terminal", <<Str("--working-directory"), targetDir>>),
       Cand("x-terminal-emulator",
            <<Str("-e"), <<"bash -c 'cd \"">> \o targetDir \o <<"\"; exec bash'">> >>),
       Cand("xterm",
            <<Str("-e"), <<"bash -lc 'cd \"">> \o targetDir \o <<"\"; exec bash'">> >>) >>

linuxCandidates(targetDir) ==
    << Cand("gnome-terminal",
            <<Str("--"), Str("bash"), Str("-lc"),
              <<"cd \"">> \o targetDir \o <<"\"; exec bash">> >>),
       Cand("konsole", <<Str("--workdir"), targetDir>>),
       Cand("xfce4-terminal", <<Str("--working-directory"), targetDir>>),
       Cand("x-terminal-emulator",
            <<Str("-e"), <<"bash -c 'cd \"">> \o targetDir \o <<"\"; exec bash'">> >>),
       Cand("xterm",
            <<Str("-e"), <<"bash -lc 'cd \"">> \o targetDir \o <<"\"; exec bash'">> >>) >>

alacritty(targetDir) == Cand("alacritty", <<Str("--working-directory"), targetDir>>)


-----------------------------------------------------------------------------
(* The mutable state as one value, so that the code's functions can be     *)
(* written as functions from state to state.                               *)

Here == [inv |-> inv, att |-> att, msgs |-> msgs, terms |-> terms, unhandled |-> unhandled]

Commit(m) ==
    /\ inv' = m.inv
    /\ att' = m.att
    /\ msgs' = m.msgs
    /\ terms' = m.terms
    /\ unhandled' = m.unhandled

\* What the environment does with the spawn calls of one task that starts at
\* candidate k: spawn() throws for the candidates k..n-1 and behaves as b from
\* candidate n on (the task suspends at the first spawn that does not throw).
EnvChoices(k) ==
    {[j \in 1..Len(linuxCandidates(Undefined)) |-> IF j < n THEN "throw" ELSE b] :
        n \in k..(Len(linuxCandidates(Undefined)) + 1), b \in {"error", "ok"}}

-----------------------------------------------------------------------------
(* The host's UI.                                                          *)

showErrorMessage(m, i, text) ==
    [m EXCEPT !.msgs[i] = Append(@, [level |-> "error", text |-> text])]

showInformationMessage(m, i, text) ==
    [m EXCEPT !.msgs[i] = Append(@, [level |-> "info", text |-> text])]

openIntegratedTerminal(m, i, targetDir, label) ==
    [m EXCEPT !.terms[i] = Append(@, [name |-> label, cwd |-> targetDir, shown |-> TRUE])]

-----------------------------------------------------------------------------
(* Launch attempt.                                                         *)

\* NewAttempt without `child.on('error', reject)`.
NewAttemptNoListener(k, c, b) ==
    IF b = "throw"
    THEN [cand |-> k, call |-> c, threw |-> TRUE,
          promise |-> "rejected", listener |-> FALSE, timer |-> "none",
          err |-> "none", unrefs |-> 0, first |-> "none"]
    ELSE [cand |-> k, call |-> c, threw |-> FALSE,
          promise |-> "pending", listener |-> FALSE, timer |-> "armed",
          err |-> IF b = "error" THEN "pending" ELSE "none",
          unrefs |-> 0, first |-> "none"]

\* The promise and child that `new Promise(...)` of spawnPromise sets up for
\* candidate k, when the spawn call behaves as b.
NewAttempt(k, c, b) ==
    IF b = "throw"
    THEN [cand |-> k, call |-> c, threw |-> TRUE,
          promise |-> "rejected", listener |-> FALSE, timer |-> "none",
          err |-> "none", unrefs |-> 0, first |-> "none"]
    ELSE [cand |-> k, call |-> c, threw |-> FALSE,
          promise |-> "pending", listener |-> TRUE, timer |-> "armed",
          err |-> IF b = "error" THEN "pending" ELSE "none",
          unrefs |-> 0, first |-> "none"]

\* The caller awaits the promise spawnPromise returns.
spawnPromise(m, i, k, c, b) ==
    [m EXCEPT !.att[i] = Append(@, NewAttempt(k, c, b)),
              !.inv[i].awaiting = Len(m.att[i]) + 1]

\* The awaited promise is already rejected: the await throws in this task.
Rejected(m, i) == m.att[i][m.inv[i].awaiting].promise = "rejected"

-----------------------------------------------------------------------------
(* Cascading variant: the command handler after `await openSystemTerminal`.*)

\* handlerAfterResolver with the test of ok inverted.
handlerAfterResolverInverted(m, i, ok) ==
    LET targetDir == m.inv[i].targetDir
        m1 == [m EXCEPT !.inv[i].pc = "done"]
    IN  IF ~ok THEN m1
        ELSE showInformationMessage(
                 openIntegratedTerminal(m1, i, targetDir, <<"Terminal -- ">> \o targetDir),
                 i, "Opened VS Code integrated terminal (system terminal not found).")

\* (The terminal's label is `Terminal <em dash> ${targetDir}`; the dash is
\* written "--" here.)
handlerAfterResolver(m, i, ok) ==
    LET targetDir == m.inv[i].targetDir
        m1 == [m EXCEPT !.inv[i].pc = "done"]
    IN  IF ok THEN m1
        ELSE showInformationMessage(
                 openIntegratedTerminal(m1, i, targetDir, <<"Terminal -- ">> \o targetDir),
                 i, "Opened VS Code integrated terminal (system terminal not found).")

\* `return b` of openSystemTerminal, and the handler's continuation.
return(m, i, b) ==
    handlerAfterResolver(
        [m EXCEPT !.inv[i].ret = IF b THEN "true" ELSE "false",
                  !.inv[i].awaiting = 0],
        i, b)

\* darwinSecond whose inner catch swallows the failure and reports success.
darwinSecondSwallows(m, i, ks) ==
    LET m1 == spawnPromise(m, i, 2, darwinITerm(m.inv[i].targetDir), ks[2])
    IN  IF Rejected(m1, i) THEN return(m1, i, TRUE) ELSE m1

darwinSecond(m, i, ks) ==
    LET m1 == spawnPromise(m, i, 2, darwinITerm(m.inv[i].targetDir), ks[2])
    IN  IF Rejected(m1, i) THEN return(m1, i, FALSE) ELSE m1

darwinFirst(m, i, ks) ==
    LET m1 == spawnPromise(m, i, 1, darwinTerminal(m.inv[i].targetDir), ks[1])
    IN  IF Rejected(m1, i) THEN darwinSecond(m1, i, ks) ELSE m1

win32Second(m, i, ks) ==
    LET m1 == spawnPromise(m, i, 2, win32Cmd(m.inv[i].targetDir), ks[2])
    IN  IF Rejected(m1, i) THEN return(m1, i, FALSE) ELSE m1

win32First(m, i, ks) ==
    LET m1 == spawnPromise(m, i, 1, win32Wt(m.inv[i].targetDir), ks[1])
    IN  IF Rejected(m1, i) THEN win32Second(m1, i, ks) ELSE m1

\* linuxLoop that does not await the attempt before it tries the next candidate.
RECURSIVE linuxLoopFanOut(_, _, _, _)
linuxLoopFanOut(m, i, k, ks) ==
    LET candidates == linuxCandidates(m.inv[i].targetDir) IN
    IF k > Len(candidates) THEN m
    ELSE linuxLoopFanOut(spawnPromise(m, i, k, candidates[k], ks[k]), i, k + 1, ks)

\* `for (const [cmd, args] of candidates)` from candidate k on.
RECURSIVE linuxLoop(_, _, _, _)
linuxLoop(m, i, k, ks) ==
    LET candidates == linuxCandidates(m.inv[i].targetDir) IN
    IF k > Len(candidates) THEN return(m, i, FALSE)
    ELSE LET m1 == spawnPromise(m, i, k, candidates[k], ks[k])
         IN  IF Rejected(m1, i) THEN linuxLoop(m1, i, k + 1, ks) ELSE m1

\* openSystemTerminal with a probe cursor that survives from call to call.
openSystemTerminalResumes(m, i, ks) ==
    CASE plt = "darwin" -> darwinFirst(m, i, ks)
      [] plt = "win32"  -> win32First(m, i, ks)
      [] plt = "linux"  -> linuxLoop(m, i, i, [j \in DOMAIN ks |-> ks[1]])
      [] OTHER          -> return(m, i, FALSE)

\* openSystemTerminal probing the linux list on every platform it does not know.
openSystemTerminalOtherIsLinux(m, i, ks) ==
    CASE plt = "darwin" -> darwinFirst(m, i, ks)
      [] plt = "win32"  -> win32First(m, i, ks)
      [] OTHER          -> linuxLoop(m, i, 1, ks)

openSystemTerminal(m, i, ks) ==
    CASE plt = "darwin" -> darwinFirst(m, i, ks)
      [] plt = "win32"  -> win32First(m, i, ks)
      [] plt = "linux"  -> linuxLoop(m, i, 1, ks)
      [] OTHER          -> return(m, i, FALSE)

\* The awaited spawnPromise of candidate k rejected: the enclosing catch.
afterRejected(m, i, k, ks) ==
    CASE plt = "darwin" -> IF k = 1 THEN darwinSecond(m, i, ks) ELSE return(m, i, FALSE)
      [] plt = "win32"  -> IF k = 1 THEN win32Second(m, i, ks) ELSE return(m, i, FALSE)
      [] plt = "linux"  -> linuxLoop(m, i, k + 1, ks)
      [] OTHER          -> m

\* afterResolved without its `return true`: the resolver goes on to the next candidate.
afterResolvedKeepsTrying(m, i) ==
    afterRejected(m, i, m.att[i][m.inv[i].awaiting].cand,
                  [j \in 1..Len(linuxCandidates(Undefined)) |-> "ok"])

\* The awaited spawnPromise resolved: `return true`.
afterResolved(m, i) == return(m, i, TRUE)

-----------------------------------------------------------------------------
(* Minimal variant.                                                        *)

openAlacrittyTmux(m, i, b) ==
    LET c == alacritty(m.inv[i].targetDir)
        a == IF b = "throw"
             THEN [cand |-> 1, call |-> c, threw |-> TRUE,
                   promise |-> "rejected", listener |-> FALSE, timer |-> "none",
                   err |-> "none", unrefs |-> 0, first |-> "none"]
             ELSE [cand |-> 1, call |-> c, threw |-> FALSE,
                   promise |-> "pending", listener |-> TRUE, timer |-> "armed",
                   err |-> IF b = "error" THEN "pending" ELSE "none",
                   unrefs |-> 0, first |-> "none"]
    IN  [m EXCEPT !.att[i] = Append(@, a),
                  !.inv[i].awaiting = Len(m.att[i]) + 1]

\* minimalCatch with an empty catch block.
minimalCatchSilent(m, i) == [m EXCEPT !.inv[i].pc = "done", !.inv[i].awaiting = 0]

\* `catch (e)` of the minimal handler.
minimalCatch(m, i) ==
    showErrorMessage([m EXCEPT !.inv[i].pc = "done", !.inv[i].awaiting = 0], i,
                     "Failed to open Alacritty (is it installed?).")

\* The await of the minimal handler returned normally.
minimalDone(m, i) == [m EXCEPT !.inv[i].pc = "done", !.inv[i].awaiting = 0]

-----------------------------------------------------------------------------
(* Promise settlement: the first of resolve and reject wins, and the       *)
(* function that awaits the promise continues.                             *)

\* reject that settles the promise again after it was resolved.
rejectOverrides(m, i, a, ks) ==
    IF m.att[i][a].promise = "rejected" THEN m
    ELSE LET m1 == [m EXCEPT !.att[i][a].promise = "rejected"]
         IN  IF variant = "cascade" THEN afterRejected(m1, i, m.att[i][a].cand, ks)
             ELSE minimalCatch(m1, i)

reject(m, i, a, ks) ==
    IF m.att[i][a].promise # "pending" THEN m
    ELSE LET m1 == [m EXCEPT !.att[i][a].promise = "rejected"]
         IN  IF variant = "cascade" THEN afterRejected(m1, i, m.att[i][a].cand, ks)
             ELSE minimalCatch(m1, i)

\* resolve that leaves the promise pending.
resolveDropped(m, i, a) == m

\* resolve that settles the promise again after it was rejected.
resolveOverrides(m, i, a) ==
    LET m1 == [m EXCEPT !.att[i][a].promise = "resolved"]
    IN  IF m.att[i][a].promise = "rejected" THEN m1
        ELSE IF m.att[i][a].promise = "resolved" THEN m
        ELSE IF variant = "cascade" THEN afterResolved(m1, i)
        ELSE minimalDone(m1, i)

resolve(m, i, a) ==
    IF m.att[i][a].promise # "pending" THEN m
    ELSE LET m1 == [m EXCEPT !.att[i][a].promise = "resolved"]
         IN  IF variant = "cascade" THEN afterResolved(m1, i)
             ELSE minimalDone(m1, i)

\* emitError with one `reject` shared by all activations: the error of any
\* child rejects the attempt the latest activation is awaiting.
emitErrorShared(m, i, a, ks) ==
    LET m1 == [m EXCEPT !.att[i][a].err = "delivered",
                        !.att[i][a].first = IF @ = "none" THEN "error" ELSE @]
        j == Len(m.inv)
    IN  IF m.inv[j].awaiting # 0 THEN reject(m1, j, m.inv[j].awaiting, ks)
        ELSE m1

\* The child emits 'error': the listeners run, and without one Node throws.
emitError(m, i, a, ks) ==
    LET m1 == [m EXCEPT !.att[i][a].err = "delivered",
                        !.att[i][a].first = IF @ = "none" THEN "error" ELSE @]
    IN  IF m.att[i][a].listener THEN reject(m1, i, a, ks)
        ELSE [m1 EXCEPT !.unhandled = @ + 1]

\* timerCallback without `child.unref()`.
timerCallbackNoUnref(m, i, a) ==
    resolve([m EXCEPT !.att[i][a].timer = "fired",
                      !.att[i][a].first = IF @ = "none" THEN "timer" ELSE @],
            i, a)

\* The setTimeout callback: `try { child.unref(); } catch (e) { }; resolve(true)`.
timerCallback(m, i, a) ==
    resolve([m EXCEPT !.att[i][a].timer = "fired",
                      !.att[i][a].unrefs = @ + 1,
                      !.att[i][a].first = IF @ = "none" THEN "timer" ELSE @],
            i, a)

-----------------------------------------------------------------------------
(* The command handler up to its first suspension.                         *)

\* `let fileUri = resource; if (!fileUri) { ... editor.document.uri }`
FileUri(resource, editor) == IF resource # Undefined THEN resource ELSE editor

\* A new activation of the handler; successive: no earlier one is still running.
NewInvocation(m, targetDir) ==
    [m EXCEPT !.inv = Append(@, [targetDir |-> targetDir, pc |-> "awaiting",
                                 ret |-> "none", awaiting |-> 0,
                                 successive |-> \A j \in 1..Len(m.inv) :
                                                    m.inv[j].pc = "done"]),
              !.att = Append(@, <<>>),
              !.msgs = Append(@, <<>>),
              !.terms = Append(@, <<>>)]

\* NoFile without its `return`: the handler goes on to the fallback.
NoFileFallsBack(m, text) ==
    LET i == Len(m.inv) + 1 IN
    openIntegratedTerminal(
        showErrorMessage([NewInvocation(m, Undefined) EXCEPT !.inv[i].pc = "done"], i, text),
        i, Undefined, <<"Terminal -- ">>)

NoFile(m, text) ==
    LET i == Len(m.inv) + 1 IN
    showErrorMessage([NewInvocation(m, Undefined) EXCEPT !.inv[i].pc = "done"], i, text)

cascadeHandler(m, resource, editor, ks) ==
    LET fileUri == FileUri(resource, editor)
        i == Len(m.inv) + 1
    IN  IF fileUri = Undefined
        THEN NoFile(m, "No file selected to open in terminal.")
        ELSE openSystemTerminal(NewInvocation(m, dirname(fileUri)), i, ks)

minimalHandler(m, resource, editor, b) ==
    LET fileUri == FileUri(resource, editor)
        i == Len(m.inv) + 1
    IN  IF fileUri = Undefined
        THEN NoFile(m, "No file selected.")
        ELSE LET m1 == openAlacrittyTmux(NewInvocation(m, dirname(fileUri)), i, b)
             IN  IF Rejected(m1, i) THEN minimalCatch(m1, i) ELSE m1

-----------------------------------------------------------------------------
(* Actions: the tasks of the event loop.                                   *)

Init ==
    /\ variant \in Variants
    /\ plt \in Platforms
    /\ inv = <<>>
    /\ att = <<>>
    /\ msgs = <<>>
    /\ terms = <<>>
    /\ unhandled = 0
    /\ given = <<>>
    /\ logger = 0
    /\ created = 0
    /\ logFile = <<>>
    /\ returned = <<>>

\* The user runs openFileInDefaultTerminal.open (cascading variant).
InvokeCascade ==
    /\ variant = "cascade"
    /\ Len(inv) < MaxInvocations
    /\ \E resource \in Files \cup {Undefined}, editor \in Files \cup {Undefined},
          ks \in EnvChoices(1) :
          /\ Commit(cascadeHandler(Here, resource, editor, ks))
          /\ given' = Append(given, resource # Undefined \/ editor # Undefined)
    /\ UNCHANGED <<variant, plt, logVars>>

\* The user runs openFileInDefaultTerminal.open (minimal variant).
InvokeMinimal ==
    /\ variant = "minimal"
    /\ Len(inv) < MaxInvocations
    /\ \E resource \in Files \cup {Undefined}, editor \in Files \cup {Undefined},
          b \in SpawnBehaviours :
          /\ Commit(minimalHandler(Here, resource, editor, b))
          /\ given' = Append(given, resource # Undefined \/ editor # Undefined)
    /\ UNCHANGED <<variant, plt, logVars>>

\* A child's 'error' event is delivered.
ErrorEvent ==
    /\ \E i \in 1..Len(inv) : \E a \in 1..Len(att[i]) :
          /\ att[i][a].err = "pending"
          /\ \E ks \in EnvChoices(att[i][a].cand + 1) :
                Commit(emitError(Here, i, a, ks))
    /\ UNCHANGED <<variant, plt, given, logVars>>

\* The oldest armed 200 ms timer of an activation expires.
OldestArmed(i) ==
    LET S == {a \in 1..Len(att[i]) : att[i][a].timer = "armed"}
    IN  IF S = {} THEN 0 ELSE CHOOSE a \in S : \A b \in S : a <= b

TimerFire ==
    /\ \E i \in 1..Len(inv) :
          /\ OldestArmed(i) # 0
          /\ Commit(timerCallback(Here, i, OldestArmed(i)))
    /\ UNCHANGED <<variant, plt, given, logVars>>

Next == InvokeCascade \/ InvokeMinimal \/ ErrorEvent \/ TimerFire

Spec == Init /\ [][Next]_vars

\* Every armed timer expires: the event loop runs the callback of setTimeout(..., 200).
FairSpec == Spec /\ WF_vars(TimerFire)

-----------------------------------------------------------------------------
(* The logging module (createLogger), used on its own.                     *)

\* os.homedir() of the user the process runs as.
HomeDirs == { <<"/", "home", "/", "me">>, <<"/", "root">> }

\* winston's npm levels, most severe first; the sink is created with level 'info'.
Levels == <<"error", "warn", "info", "http", "verbose", "debug", "silly">>

Severity(level) == CHOOSE n \in 1..Len(Levels) : Levels[n] = level

Messages == {<<"run">>, <<"exit">>}

\* format.printf(({ level, message }) => `[${level}] ${message}`)
Format(level, message) == <<"[", level, "] ">> \o message

\* logger.log(level, message) on the File transport of a sink of level 'info'.
Write(st, level, message) ==
    IF Severity(level) <= Severity("info")
    THEN [st EXCEPT !.logFile = Append(@, Format(level, message))]
    ELSE st

\* path.join(os.homedir(), 'cli-runner.log')
LogFilePath(home) == home \o <<"/", "cli-runner.log">>

\* createLogger without `if (logger) return logger`.
createLoggerAlways(st, home) ==
    LET st1 == [st EXCEPT !.created = @ + 1, !.logger = st.created + 1]
    IN  Write(st1, "info", <<"Logger initialized: ">> \o LogFilePath(home))

\* createLogger(): the state after the call; the call returns its .logger.
createLogger(st, home) ==
    IF st.logger # 0 THEN st
    ELSE LET st1 == [st EXCEPT !.created = @ + 1, !.logger = st.created + 1]
         IN  Write(st1, "info", <<"Logger initialized: ">> \o LogFilePath(home))

LogHere == [logger |-> logger, created |-> created, logFile |-> logFile]

LogCommit(st) ==
    /\ logger' = st.logger
    /\ created' = st.created
    /\ logFile' = st.logFile

\* Some module calls createLogger().
CreateLoggerCall ==
    /\ Len(returned) < MaxLoggerCalls
    /\ \E home \in HomeDirs :
          LET st == createLogger(LogHere, home) IN
          /\ LogCommit(st)
          /\ returned' = Append(returned, st.logger)
    /\ UNCHANGED <<variant, plt, inv, att, msgs, terms, unhandled, given>>

\* A holder of a returned instance logs a message through it.
LogMessage ==
    /\ returned # <<>>
    /\ Len(logFile) < MaxLogLines
    /\ \E n \in 1..Len(Levels), message \in Messages :
          LogCommit(Write(LogHere, Levels[n], message))
    /\ UNCHANGED <<variant, plt, inv, att, msgs, terms, unhandled, given, returned>>

NextLogger == CreateLoggerCall \/ LogMessage

SpecLogger == Init /\ [][NextLogger]_vars

-----------------------------------------------------------------------------
(* Vocabulary of the properties.                                           *)

Known == {"darwin", "win32", "linux"}

\* The documented probe order, by program.
Documented ==
    CASE plt = "darwin" -> <<"Terminal", "iTerm">>
      [] plt = "win32"  -> <<"wt", "cmd">>
      [] plt = "linux"  -> <<"gnome-terminal", "konsole", "xfce4-terminal",
                             "x-terminal-emulator", "xterm">>
      [] OTHER          -> <<>>

\* The program a spawn call launches (`open -a <app>` launches <app>).
Program(call) == IF call.cmd = "open" THEN call.args[2][1] ELSE call.cmd

\* The spawn calls of activation i, in order.
Calls(i) == [a \in 1..Len(att[i]) |-> att[i][a].call]

Programs(i) == [a \in 1..Len(att[i]) |-> Program(att[i][a].call)]

Invocations == 1..Len(inv)

Failed(i, a) == att[i][a].promise = "rejected"

Succeeded(i, a) == att[i][a].promise = "resolved"

Pending(i, a) == att[i][a].promise = "pending"

-----------------------------------------------------------------------------
(* C1: on a known platform, when candidates 1..N-1 are Failed and          *)
(* candidate N is Succeeded, openSystemTerminal has issued exactly N spawn *)
(* calls, in the table's order, has returned true, and (the property       *)
(* holding in every later state) spawns nothing after N.                   *)
C1_FirstSuccessStops ==
    (variant = "cascade" /\ plt \in Known) =>
        \A i \in Invocations : \A N \in 1..Len(att[i]) :
            (Succeeded(i, N) /\ \A k \in 1..(N - 1) : Failed(i, k)) =>
                /\ Len(att[i]) = N
                /\ \A k \in 1..N : att[i][k].cand = k
                /\ Programs(i) = SubSeq(Documented, 1, N)
                /\ inv[i].ret = "true"
                /\ inv[i].pc = "done"

\* linux, N = 3, and the third child has emitted a late error since.
C1_Witness ==
    /\ variant = "cascade" /\ plt = "linux"
    /\ \E i \in Invocations :
          /\ Len(att[i]) = 3
          /\ Failed(i, 1) /\ Failed(i, 2) /\ Succeeded(i, 3)
          /\ att[i][3].err = "delivered"
          /\ inv[i].ret = "true"

-----------------------------------------------------------------------------
AllFailed(i) == \A a \in 1..Len(att[i]) : Failed(i, a)

(* C2: on a known platform, when every launch attempt is Failed,           *)
(* openSystemTerminal has spawned each candidate exactly once in the       *)
(* documented order and returns false; and it returns false in no other    *)
(* case.                                                                   *)
C2_AllFailTriesAllInOrder ==
    (variant = "cascade" /\ plt \in Known) =>
        \A i \in Invocations : given[i] =>
            /\ AllFailed(i) =>
                  /\ Programs(i) = Documented
                  /\ inv[i].ret = "false"
                  /\ inv[i].pc = "done"
            /\ inv[i].ret = "false" => AllFailed(i)

\* linux: five attempts, failed by a thrown spawn and by error events.
C2_Witness ==
    /\ variant = "cascade" /\ plt = "linux"
    /\ \E i \in Invocations :
          /\ Len(att[i]) = 5 /\ AllFailed(i)
          /\ att[i][1].threw /\ att[i][2].first = "error" /\ att[i][5].first = "error"
          /\ inv[i].ret = "false"

-----------------------------------------------------------------------------
-----------------------------------------------------------------------------
(* C4: a launch attempt is Failed when its child's error event was         *)
(* delivered before its timer expired, Succeeded when its timer expired    *)
(* before any error event, and (unless spawn threw) undecided while        *)
(* neither was delivered: the first of the two events decides, whatever    *)
(* follows.                                                                *)
C4_FirstEventDecides ==
    \A i \in Invocations : \A a \in 1..Len(att[i]) :
        /\ att[i][a].first = "error" => Failed(i, a)
        /\ att[i][a].first = "timer" => Succeeded(i, a)
        /\ (att[i][a].first = "none" /\ ~att[i][a].threw) => Pending(i, a)

\* Both orders, each with both events delivered.
C4_Witness ==
    \E i \in Invocations : \E a, b \in 1..Len(att[i]) :
        /\ att[i][a].first = "error" /\ att[i][a].timer = "fired"
        /\ att[i][b].first = "timer" /\ att[i][b].err = "delivered"

-----------------------------------------------------------------------------
Embeds(call, dir) == \E j \in 1..Len(call.args) : Contains(call.args[j], dir)

InfoNotice ==
    [level |-> "info",
     text |-> "Opened VS Code integrated terminal (system terminal not found)."]

(* C5: in the cascading variant the handler opens the integrated terminal  *)
(* (cwd = the targetDir the resolver was given and put into its spawn      *)
(* calls) and shows the informational notice exactly when                  *)
(* openSystemTerminal returned false; when it returned true there is no    *)
(* terminal and no message; and the fallback is requested only once every  *)
(* candidate of the platform's list has been attempted and is Failed.      *)
C5_FallbackIffFalse ==
    variant = "cascade" =>
        \A i \in Invocations :
            /\ inv[i].ret = "false" =>
                  /\ Len(terms[i]) = 1
                  /\ terms[i][1].cwd = inv[i].targetDir
                  /\ terms[i][1].shown
                  /\ \A a \in 1..Len(att[i]) : Embeds(att[i][a].call, terms[i][1].cwd)
                  /\ msgs[i] = <<InfoNotice>>
            /\ inv[i].ret # "false" =>
                  /\ terms[i] = <<>>
                  /\ \A n \in 1..Len(msgs[i]) : msgs[i][n].level # "info"
            /\ inv[i].ret = "true" => msgs[i] = <<>>
            /\ terms[i] # <<>> =>
                  /\ Len(att[i]) = Len(Documented)
                  /\ AllFailed(i)

\* darwin: Terminal and iTerm failed, the integrated terminal is open at targetDir.
C5_Witness ==
    /\ variant = "cascade" /\ plt = "darwin"
    /\ \E i \in Invocations :
          /\ Len(att[i]) = 2 /\ AllFailed(i)
          /\ Len(terms[i]) = 1 /\ terms[i][1].cwd = dirname(CHOOSE f \in Files : TRUE)
          /\ msgs[i] = <<InfoNotice>>

-----------------------------------------------------------------------------
(* C6: in both variants, an invocation with no resource and no active      *)
(* editor shows an error and returns: no spawn call, no integrated         *)
(* terminal, no informational notice.                                      *)
C6_NoContextAborts ==
    \A i \in Invocations : ~given[i] =>
        /\ inv[i].pc = "done"
        /\ att[i] = <<>>
        /\ terms[i] = <<>>
        /\ Len(msgs[i]) = 1
        /\ msgs[i][1].level = "error"
        /\ msgs[i][1].text = IF variant = "cascade"
                             THEN "No file selected to open in terminal."
                             ELSE "No file selected."

\* An invocation without context next to one that did spawn.
C6_Witness ==
    \E i, j \in Invocations :
        /\ ~given[i] /\ Len(msgs[i]) = 1
        /\ given[j] /\ att[j] # <<>>

-----------------------------------------------------------------------------
AlacrittyError ==
    [level |-> "error", text |-> "Failed to open Alacritty (is it installed?)."]

-----------------------------------------------------------------------------
(* C8: within one resolution the spawn call for the next candidate is      *)
(* issued only when the attempt before it is Failed, and at most one       *)
(* attempt is Pending.                                                     *)
C8_Sequential ==
    \A i \in Invocations :
        /\ \A a \in 2..Len(att[i]) : Failed(i, a - 1)
        /\ Cardinality({a \in 1..Len(att[i]) : Pending(i, a)}) <= 1

\* The second attempt is Pending while the timer of the Failed first is still armed.
C8_Witness ==
    \E i \in Invocations :
        /\ Len(att[i]) >= 2
        /\ Pending(i, 2)
        /\ att[i][1].first = "error" /\ att[i][1].timer = "armed"

-----------------------------------------------------------------------------
(* C9: no error escapes a resolution, whether spawn throws, the error      *)
(* event comes before the timer or after it: nothing is unhandled, a       *)
(* finished handler of the cascading variant has a boolean from            *)
(* openSystemTerminal and ended silently (true) or with the notice         *)
(* (false), and an unfinished one still awaits a Pending attempt.          *)
C9_NoErrorEscapes ==
    /\ unhandled = 0
    /\ variant = "cascade" =>
          \A i \in Invocations : given[i] =>
              /\ inv[i].pc = "done" =>
                    /\ inv[i].ret \in {"true", "false"}
                    /\ inv[i].ret = "true" => msgs[i] = <<>>
                    /\ inv[i].ret = "false" => msgs[i] = <<InfoNotice>>
              /\ inv[i].pc # "done" =>
                    /\ inv[i].ret = "none"
                    /\ inv[i].awaiting \in 1..Len(att[i])
                    /\ Pending(i, inv[i].awaiting)

\* One resolution with a thrown spawn, an early error and a late error.
C9_Witness ==
    /\ variant = "cascade"
    /\ \E i \in Invocations :
          /\ Len(att[i]) = 3
          /\ att[i][1].threw
          /\ att[i][2].first = "error"
          /\ att[i][3].first = "timer" /\ att[i][3].err = "delivered"
          /\ inv[i].pc = "done" /\ inv[i].ret = "true"

-----------------------------------------------------------------------------
SameStub(i, j) ==
    \A a \in 1..Len(att[i]), b \in 1..Len(att[j]) :
        att[i][a].cand = att[j][b].cand => att[i][a].promise = att[j][b].promise

(* C10: two successive resolutions with the same targetDir whose           *)
(* candidates were classified alike (a deterministic stub) return the      *)
(* same boolean and issue the same sequence of spawn calls.                *)
C10_Idempotent ==
    variant = "cascade" =>
        \A i, j \in Invocations :
            ( /\ i < j /\ given[i] /\ given[j]
              /\ inv[j].successive
              /\ inv[i].pc = "done" /\ inv[j].pc = "done"
              /\ inv[i].targetDir = inv[j].targetDir
              /\ SameStub(i, j) ) =>
                /\ inv[i].ret = inv[j].ret
                /\ Calls(i) = Calls(j)

\* linux, twice: two candidates Failed, the third Succeeded.
C10_Witness ==
    /\ variant = "cascade" /\ plt = "linux"
    /\ \E i, j \in Invocations :
          /\ i < j /\ inv[j].successive /\ SameStub(i, j)
          /\ inv[i].pc = "done" /\ inv[j].pc = "done"
          /\ Len(att[i]) = 3 /\ Len(att[j]) = 3
          /\ inv[i].ret = "true" /\ inv[j].ret = "true"

-----------------------------------------------------------------------------
InitLine(line) == Contains(line, <<"Logger initialized: ">>)

(* C11: after any sequence of createLogger calls the sink constructor has  *)
(* run exactly once, the 'Logger initialized' line has been written        *)
(* exactly once, and every call returned the same logger instance; before  *)
(* the first call nothing is created.                                      *)
C11_LoggerOnce ==
    /\ returned = <<>> => (created = 0 /\ logger = 0 /\ logFile = <<>>)
    /\ returned # <<>> =>
          /\ created = 1
          /\ Cardinality({n \in 1..Len(logFile) : InitLine(logFile[n])}) = 1
          /\ InitLine(logFile[1])
          /\ \A c \in 1..Len(returned) : returned[c] = returned[1] /\ returned[c] = logger
          /\ logger # 0

\* Three calls, with other lines written between and after them.
C11_Witness ==
    /\ Len(returned) = 3
    /\ Len(logFile) = 3
    /\ created = 1

-----------------------------------------------------------------------------
\* The directory of every file of Files, written out.
ExampleDir == <<"/", "home", "/", "me", "/", "projects", "/", "foo", "/", "src">>

(* C12: on a known platform the argument vector of every spawn call embeds *)
(* the targetDir of the resolution (the directory of the file the command  *)
(* was invoked on), as a whole argument or inside a shell command; on      *)
(* linux with the first two candidates Failed and the third Succeeded      *)
(* there are exactly 3 spawn calls and the third embeds targetDir.         *)
C12_ArgsEmbedTargetDir ==
    (variant = "cascade" /\ plt \in Known) =>
        \A i \in Invocations :
            /\ \A a \in 1..Len(att[i]) :
                  /\ inv[i].targetDir = ExampleDir
                  /\ Embeds(att[i][a].call, ExampleDir)
            /\ ( /\ plt = "linux" /\ Len(att[i]) >= 3
                 /\ Failed(i, 1) /\ Failed(i, 2) /\ Succeeded(i, 3) ) =>
                  /\ Len(att[i]) = 3
                  /\ att[i][3].call.cmd = "xfce4-terminal"
                  /\ att[i][3].call.args[2] = ExampleDir

\* linux: two Failed, the third Succeeded.
C12_Witness ==
    /\ variant = "cascade" /\ plt = "linux"
    /\ \E i \in Invocations :
          /\ Len(att[i]) = 3
          /\ Failed(i, 1) /\ Failed(i, 2) /\ Succeeded(i, 3)
          /\ inv[i].pc = "done"
          /\ Embeds(att[i][3].call, ExampleDir)

-----------------------------------------------------------------------------
(* C13: when the timer of a launch attempt expires with no error before    *)
(* it, the child has been unreferenced by the time the caller has          *)
(* Succeeded (in both variants), and unref is called at most once per      *)
(* child: once when its timer has fired, never before, never for a spawn   *)
(* that threw.                                                             *)
C13_UnrefOnceBeforeSucceeded ==
    \A i \in Invocations : \A a \in 1..Len(att[i]) :
        /\ att[i][a].unrefs <= 1
        /\ Succeeded(i, a) => att[i][a].unrefs = 1
        /\ att[i][a].unrefs = 1 <=> att[i][a].timer = "fired"
        /\ att[i][a].threw => att[i][a].unrefs = 0

\* The caller has its Succeeded; the timer of an earlier Failed attempt has fired too.
C13_Witness ==
    \E i \in Invocations :
        /\ Len(att[i]) = 2
        /\ att[i][1].first = "error" /\ att[i][1].unrefs = 1
        /\ Succeeded(i, 2) /\ att[i][2].unrefs = 1
        /\ inv[i].ret = "true"

-----------------------------------------------------------------------------
\* In this step the error event of attempt a of activation i is delivered.
ErrorDelivered(i, a) == att[i][a].err = "pending" /\ att'[i][a].err = "delivered"

\* In this step the timer of attempt a of activation i expires.
TimerExpired(i, a) == att[i][a].timer = "armed" /\ att'[i][a].timer = "fired"

\* The step leaves the resolution of activation i as it was.
ResolutionUntouched(i) ==
    /\ inv'[i] = inv[i]
    /\ Len(att'[i]) = Len(att[i])
    /\ terms'[i] = terms[i]
    /\ msgs'[i] = msgs[i]

(* C14: a launch attempt that has left Pending keeps its outcome in every  *)
(* step; an error event delivered after the attempt is Succeeded spawns no *)
(* further candidate and opens no integrated terminal; the timer expiring  *)
(* after the attempt is Failed does not make the resolver return for that  *)
(* candidate.                                                              *)
C14_OutcomeIsFinal ==
    [][ \A i \in Invocations : \A a \in 1..Len(att[i]) :
            /\ ~Pending(i, a) => att'[i][a].promise = att[i][a].promise
            /\ (Succeeded(i, a) /\ ErrorDelivered(i, a)) => ResolutionUntouched(i)
            /\ (Failed(i, a) /\ TimerExpired(i, a)) => ResolutionUntouched(i)
      ]_vars

\* A late error after Succeeded and a late timer after Failed, both delivered.
C14_Witness ==
    /\ variant = "cascade"
    /\ \E i \in Invocations :
          /\ Len(att[i]) = 2
          /\ Failed(i, 1) /\ att[i][1].first = "error" /\ att[i][1].timer = "fired"
          /\ Succeeded(i, 2) /\ att[i][2].err = "delivered"
          /\ inv[i].ret = "true" /\ terms[i] = <<>> /\ msgs[i] = <<>>

-----------------------------------------------------------------------------
\* The number of candidates openSystemTerminal (or the minimal handler) has.
ListLength == IF variant = "cascade" THEN Len(Documented) ELSE 1

\* At most one spawn call per candidate, and none for a candidate not in the list.
NeverRetries(i) ==
    /\ Len(att[i]) <= ListLength
    /\ \A a, b \in 1..Len(att[i]) : att[i][a].cand = att[i][b].cand => a = b
    /\ \A a \in 1..Len(att[i]) : att[i][a].cand \in 1..ListLength

Returned(i) ==
    /\ i <= Len(inv)
    /\ inv[i].pc = "done"
    /\ \A a \in 1..Len(att[i]) : ~Pending(i, a)
    /\ (variant = "cascade" /\ given[i]) => inv[i].ret \in {"true", "false"}

-----------------------------------------------------------------------------
\* The candidate list of the platform, as spawn calls for targetDir.
Table(targetDir) ==
    CASE plt = "darwin" -> <<darwinTerminal(targetDir), darwinITerm(targetDir)>>
      [] plt = "win32"  -> <<win32Wt(targetDir), win32Cmd(targetDir)>>
      [] plt = "linux"  -> linuxCandidates(targetDir)
      [] OTHER          -> <<>>

\* What resolution i does when run alone against the classification its
\* candidates received: the list in order, each call made only after all
\* earlier ones Failed; true at the first Succeeded, false on exhaustion.
AsAlone(i) ==
    LET table == Table(inv[i].targetDir)
        n == Len(att[i])
    IN  /\ n <= Len(table)
        /\ \A a \in 1..n : /\ att[i][a].call = table[a]
                           /\ a < n => Failed(i, a)
        /\ inv[i].pc = "awaiting" => n > 0 /\ Pending(i, n)
        /\ inv[i].pc = "done" =>
              /\ inv[i].ret = "true" <=> (n > 0 /\ Succeeded(i, n))
              /\ inv[i].ret = "false" <=> (n = Len(table) /\ AllFailed(i))
              /\ inv[i].ret \in {"true", "false"}

\* Activation j was started while activation i was inside a decision window.
Overlap(i, j) == i < j /\ ~inv[j].successive

(* C16: when activations of the command overlap, each resolution issues    *)
(* the spawn sequence and returns the boolean it would alone given how its *)
(* own candidates were classified; a step that delivers the error event or *)
(* the timer expiry of one resolution's child changes nothing of any other *)
(* resolution; and no resolution has two attempts classified Succeeded.    *)
C16_OverlapIndependent ==
    /\ [](variant = "cascade" =>
             \A i \in Invocations :
                 /\ given[i] => AsAlone(i)
                 /\ \A a, b \in 1..Len(att[i]) :
                        Succeeded(i, a) /\ Succeeded(i, b) => a = b)
    /\ [][ \A i \in Invocations : \A a \in 1..Len(att[i]) :
               (ErrorDelivered(i, a) \/ TimerExpired(i, a)) =>
                   \A j \in Invocations \ {i} :
                       /\ att'[j] = att[j]
                       /\ inv'[j] = inv[j]
                       /\ msgs'[j] = msgs[j]
                       /\ terms'[j] = terms[j]
         ]_vars

\* linux: the second activation started inside a decision window of the
\* first; the first Succeeded at its second candidate after a late error,
\* the second exhausted the list through error events.
C16_Witness ==
    /\ variant = "cascade" /\ plt = "linux"
    /\ Len(inv) = 2 /\ Overlap(1, 2)
    /\ inv[1].pc = "done" /\ inv[1].ret = "true" /\ Len(att[1]) = 2
    /\ att[1][1].first = "error" /\ att[1][2].err = "delivered"
    /\ inv[2].pc = "done" /\ inv[2].ret = "false" /\ Len(att[2]) = 5
    /\ \A a \in 1..5 : att[2][a].first = "error"

-----------------------------------------------------------------------------
\* The linux loop over any candidate list: iterate in order from candidate k,
\* return true at the first Succeeded (afterResolved), false on exhaustion.
RECURSIVE orderedLoop(_, _, _, _, _)
orderedLoop(m, i, k, candidates, ks) ==
    IF k > Len(candidates) THEN return(m, i, FALSE)
    ELSE LET m1 == spawnPromise(m, i, k, candidates[k], ks[k])
         IN  IF Rejected(m1, i) THEN orderedLoop(m1, i, k + 1, candidates, ks) ELSE m1

\* A call of openSystemTerminal in the current state does what the loop does.
SameStart ==
    Len(inv) < MaxInvocations =>
        \A f \in Files : \A ks \in EnvChoices(1) :
            LET targetDir == dirname(f)
                m == NewInvocation(Here, targetDir)
                i == Len(inv) + 1
            IN  openSystemTerminal(m, i, ks)
                    = orderedLoop(m, i, 1, Table(targetDir), ks)

\* The catch entered when pending attempt a is rejected does what the loop does.
SameCatch ==
    \A i \in Invocations : \A a \in 1..Len(att[i]) :
        Pending(i, a) =>
            \A ks \in EnvChoices(att[i][a].cand + 1) :
                LET m == [Here EXCEPT !.att[i][a].promise = "rejected"]
                    k == att[i][a].cand
                IN  afterRejected(m, i, k, ks)
                        = orderedLoop(m, i, k + 1, Table(inv[i].targetDir), ks)

(* C17: on darwin and win32 the nested try/catch cascade equals the        *)
(* ordered loop of the linux branch run over the platform's two            *)
(* candidates: started in any reachable state, and resumed at any pending  *)
(* attempt that fails, under every way the candidates may fail (spawn      *)
(* throws, error event) or succeed, both leave the same spawn calls, the   *)
(* same returned boolean and the same notices.                             *)
C17_NestedIsLoop ==
    (variant = "cascade" /\ plt \in {"darwin", "win32"}) => SameStart /\ SameCatch

\* darwin, two resolutions: Terminal Failed and iTerm Succeeded in the first,
\* both Failed in the second, whose spawn of iTerm threw.
C17_Witness ==
    /\ variant = "cascade" /\ plt = "darwin"
    /\ Len(inv) = 2
    /\ inv[1].pc = "done" /\ inv[1].ret = "true"
    /\ Len(att[1]) = 2 /\ Failed(1, 1) /\ Succeeded(1, 2)
    /\ inv[2].pc = "done" /\ inv[2].ret = "false"
    /\ Len(att[2]) = 2 /\ Failed(2, 1) /\ att[2][2].threw

=============================================================================
